---- MODULE Spec2Model ----
(***************************************************************************)
(* The canvas of HippoCanvas: the entity store of AppContent (nodes,       *)
(* connections, view state, selection), its drag-state machine, the node   *)
(* editing handlers of NodeComponent and the generation orchestrator       *)
(* handleTriggerGeneration with the asynchronous calls it leaves in        *)
(* flight.  State-update queues of the UI framework are applied in order   *)
(* inside the handler that issues them.                                    *)
(***************************************************************************)
EXTENDS Integers, Sequences, FiniteSets, TLC

VARIABLES
  nodes,                \* useState<Node[]>
  connections,          \* useState<Connection[]>
  scale,                \* useState(1), held in tenths
  offset,               \* useState<Position>
  selectedNodeId,       \* useState<string | null>, NoId for null
  selectedConnectionId, \* useState<string | null>, NoId for null
  dragState,            \* useState<{isDragging, mode, startPos, ...}>
  rAFRef,               \* the animation-frame callback that is pending, if any
  pan,                  \* history: where the pan under way began, and its last move
  nodeCounter,          \* useRef(1): the next displayId
  uuidCounter,          \* crypto.randomUUID(): the ids handed out so far, per kind of entity
  user,                 \* useAuth().user: TRUE when a user is signed in
  storedKey,            \* the credential store holds a key for the user
  aistudio,             \* window.aistudio is present
  generator,            \* GeminiImageGenerator: the call of generate() under way or returned
  calls,                \* the invocations of handleTriggerGeneration in flight
  callCounter,          \* invocations of handleTriggerGeneration so far
  issued,               \* history: <<node id, displayId>> of every node created
  annLog,               \* history: per node, the annotation ids handed out, in order
  lastOp,               \* history: the last handler that ran, with its outcome
  requests,             \* history: the calls of generateImageWithGemini
  transitions,          \* history: <<from, to>> of every change of a node's status
  outcomes              \* history: how each invocation ended

vars == <<nodes, connections, scale, offset, selectedNodeId, selectedConnectionId,
          dragState, rAFRef, pan, nodeCounter, uuidCounter, user, storedKey, aistudio,
          generator, calls, callCounter, issued, annLog, lastOp, requests, transitions, outcomes>>

viewVars == <<scale, offset>>
selVars  == <<selectedNodeId, selectedConnectionId>>
dragVars == <<dragState, rAFRef, pan>>
authVars == <<user, storedKey, aistudio, generator>>
genVars  == <<calls, callCounter, requests, transitions, outcomes>>
idVars   == <<nodeCounter, uuidCounter, issued>>

----------------------------------------------------------------------------
\* Bounds of the model.

MaxNodes == 3        \* nodes created in one run
MaxConnections == 2  \* connections created in one run
MaxEditNodes == 2    \* nodes created in one run of the editing specification
MaxLayers == 3       \* layers created in one run
MaxAnnotations == 3  \* annotations added to one image node in one run
MaxCalls == 2        \* invocations of handleTriggerGeneration in one run
MaxImages == 2       \* numberOfImages offered by the model (the UI offers 1..4)

----------------------------------------------------------------------------
\* Constants of the program and of its host page.

NoId == 0
ScaleOne == 10               \* scale 1.0 in tenths
NODE_WIDTH_UPLOAD == 300
NODE_WIDTH_GEN == 400
NodeMinHeight == 200
CenterYShift == 150
DropMargin == 40
DropMinHeight == 400
PlugDx == 55
PlugDy == 135
CanvasLeft == 0
CanvasTop == 0
CanvasWidth == 800
CanvasHeight == 600

\* The screen points pointer events are delivered at.
ClientA == 300
ClientB == 700
ClientY == 300
ClientPts == { [x |-> ClientA, y |-> ClientY], [x |-> ClientB, y |-> ClientY] }

Pos(px, py) == [x |-> px, y |-> py]
None == << >>
Some(v) == << v >>

\* An image is its data and the annotation markers baked into it.
NoImage == [data |-> "", marks |-> << >>, call |-> 0, idx |-> 0]
Img(d) == [data |-> d, marks |-> << >>, call |-> 0, idx |-> 0]
IsImage(img) == img.data # ""

----------------------------------------------------------------------------
\* Sequences.

Range(s) == { s[i] : i \in 1..Len(s) }
Map(s, F(_)) == [i \in 1..Len(s) |-> F(s[i])]
Exists(s, T(_)) == \E i \in 1..Len(s) : T(s[i])
\* Array.prototype.find: the index of the first element that passes, 0 for undefined
FindIndex(s, T(_)) ==
  IF Exists(s, T) THEN CHOOSE i \in 1..Len(s) : T(s[i]) /\ \A j \in 1..(i-1) : ~T(s[j])
  ELSE 0

NodeIds == { n.id : n \in Range(nodes) }
NodeOf(ns, id) == ns[FindIndex(ns, LAMBDA n : n.id = id)]
HasNode(ns, id) == Exists(ns, LAMBDA n : n.id = id)

----------------------------------------------------------------------------
\* Geometry.

\* screenToWorld for a canvas whose bounding rectangle begins at rect.
screenToWorldNoPan(sx, sy, rect, off, sc) ==
  Pos(((sx - rect.x) * ScaleOne) \div sc, ((sy - rect.y) * ScaleOne) \div sc)
screenToWorldAt(sx, sy, rect, off, sc) ==
  Pos(((sx - rect.x - off.x) * ScaleOne) \div sc,
      ((sy - rect.y - off.y) * ScaleOne) \div sc)

screenToWorld(sx, sy, off, sc) ==
  screenToWorldAt(sx, sy, Pos(CanvasLeft, CanvasTop), off, sc)

\* The transform of the canvas content layer: translate(offset) scale(scale).
worldToScreenAt(p, rect, off, sc) ==
  Pos((p.x * sc) \div ScaleOne + off.x + rect.x,
      (p.y * sc) \div ScaleOne + off.y + rect.y)

worldToScreen(p, off, sc) == worldToScreenAt(p, Pos(CanvasLeft, CanvasTop), off, sc)

NodeWidth(type) == IF type = "IMAGE_UPLOAD" THEN NODE_WIDTH_UPLOAD ELSE NODE_WIDTH_GEN

\* The element of a node covers the world point w.
Covers(n, w) ==
  /\ w.x >= n.position.x /\ w.x <= n.position.x + n.width
  /\ w.y >= n.position.y /\ w.y <= n.position.y + n.height

ZIndex(n) ==
  IF n.data.status = "loading" THEN 50
  ELSE IF n.id = selectedNodeId THEN 10 ELSE 0

\* The node element a pointer event at world point w is dispatched to: the one
\* painted on top (z-index, then document order), NoId over the background.
TopmostAt(w) ==
  LET hit == { i \in 1..Len(nodes) : Covers(nodes[i], w) } IN
  IF hit = {} THEN NoId
  ELSE nodes[CHOOSE i \in hit : \A j \in hit :
               \/ ZIndex(nodes[j]) < ZIndex(nodes[i])
               \/ ZIndex(nodes[j]) = ZIndex(nodes[i]) /\ j <= i].id

\* The drop region of handleMouseUp.
InDropRegion(n, w) ==
  /\ w.x >= n.position.x - DropMargin
  /\ w.x <= n.position.x + n.width
  /\ w.y >= n.position.y
  /\ w.y <= n.position.y + (IF n.height > DropMinHeight THEN n.height ELSE DropMinHeight)

----------------------------------------------------------------------------
\* The entity store.

IdleDrag ==
  [isDragging |-> FALSE, mode |-> "IDLE", startPos |-> Pos(0, 0),
   nodeStartPos |-> None, draggedNodeId |-> NoId,
   connectionStartNodeId |-> NoId, connectionCurrentPos |-> None]

\* The last handler that ran, for the properties: its name, a count, its
\* outcome, the node it started from and the world point it happened at.
OpFrom(name, arg, res, src, at, from) ==
  [op |-> name, arg |-> arg, res |-> res, src |-> src, at |-> at, from |-> from]
OpAt(name, arg, res, src, at) == OpFrom(name, arg, res, src, at, Pos(0, 0))
Op(name, arg) == OpAt(name, arg, "", NoId, Pos(0, 0))
OpRes(name, arg, res) == OpAt(name, arg, res, NoId, Pos(0, 0))
NoOp == Op("", 0)

\* crypto.randomUUID(): a value no earlier call returned.
randomUUID(kind) == uuidCounter[kind] + 1

defaultLayers(type, layerId) ==
  IF type = "GENERATE_IMAGE"
  THEN << [id |-> layerId, name |-> 0, prompt |-> "", isEnabled |-> TRUE] >>
  ELSE << >>

newNode(id, type, displayId, layerId, off, sc) ==
  LET centerX == ((CanvasWidth \div 2 - off.x) * ScaleOne) \div sc
      centerY == ((CanvasHeight \div 2 - off.y) * ScaleOne) \div sc
  IN [id |-> id,
      type |-> type,
      position |-> Pos(centerX - NodeWidth(type) \div 2, centerY - CenterYShift),
      width |-> NodeWidth(type),
      height |-> NodeMinHeight,
      data |-> [displayId |-> displayId,
                imageUrl |-> NoImage,
                annotations |-> << >>,
                layers |-> defaultLayers(type, layerId),
                prompt |-> "",
                generatedImage |-> NoImage,
                generatedImages |-> << >>,
                selectedImageIndex |-> -1,
                status |-> "idle",
                model |-> IF type = "GENERATE_IMAGE" THEN "gemini-2.5-flash-image-preview" ELSE "",
                aspectRatio |-> "1:1",
                imageResolution |-> "1K",
                numberOfImages |-> 1]]

\* The displayId addNode hands out, and the counter it leaves.
displayIdLenPlusOne(counter, ns) == Len(ns) + 1
nextDisplayId(counter, ns) == counter

addNode(type) ==
  /\ LET id == randomUUID("node")
         currentId == nextDisplayId(nodeCounter, nodes)
         layerId == randomUUID("layer")
     IN /\ nodes' = Append(nodes, newNode(id, type, currentId, layerId, offset, scale))
        /\ nodeCounter' = nodeCounter + 1
        /\ uuidCounter' = IF type = "GENERATE_IMAGE"
                          THEN [uuidCounter EXCEPT !.node = @ + 1, !.layer = @ + 1]
                          ELSE [uuidCounter EXCEPT !.node = @ + 1]
        /\ issued' = issued \cup { <<id, currentId>> }
        /\ lastOp' = Op("addNode", 0)
  /\ UNCHANGED <<connections, viewVars, selVars, dragVars, authVars, genVars, annLog>>

\* setNodes / setConnections of deleteNode.
nodesWithout(ns, nodeId) == SelectSeq(ns, LAMBDA n : n.id # nodeId)
connectionsWithoutSourceOnly(cs, nodeId) == SelectSeq(cs, LAMBDA c : c.sourceId # nodeId)
connectionsWithout(cs, nodeId) ==
  SelectSeq(cs, LAMBDA c : c.sourceId # nodeId /\ c.targetId # nodeId)

\* The delete button of a node.
deleteNode(nodeId) ==
  /\ nodeId \in NodeIds
  /\ nodes' = nodesWithout(nodes, nodeId)
  /\ connections' = connectionsWithout(connections, nodeId)
  /\ lastOp' = Op("deleteNode", Len(connections) - Len(connections'))
  /\ UNCHANGED <<viewVars, selVars, dragVars, nodeCounter, uuidCounter, authVars,
                 genVars, issued, annLog>>

\* The delete button of a selected connection.
deleteConnection(connectionId) ==
  /\ connectionId = selectedConnectionId
  /\ Exists(connections, LAMBDA c : c.id = connectionId)
  /\ connections' = SelectSeq(connections, LAMBDA c : c.id # connectionId)
  /\ lastOp' = NoOp
  /\ UNCHANGED <<nodes, viewVars, selVars, dragVars, nodeCounter, uuidCounter,
                 authVars, genVars, issued, annLog>>

\* Delete or Backspace outside an input.
handleKeyDown ==
  /\ selectedNodeId # NoId \/ selectedConnectionId # NoId
  /\ LET ns == IF selectedNodeId # NoId THEN nodesWithout(nodes, selectedNodeId) ELSE nodes
         c1 == IF selectedNodeId # NoId
               THEN connectionsWithout(connections, selectedNodeId) ELSE connections
         c2 == IF selectedConnectionId # NoId
               THEN SelectSeq(c1, LAMBDA c : c.id # selectedConnectionId) ELSE c1
     IN /\ nodes' = ns
        /\ connections' = c2
  /\ selectedNodeId' = NoId
  /\ selectedConnectionId' = NoId
  /\ lastOp' = Op("keyDelete", Len(connections) - Len(connections'))
  /\ UNCHANGED <<viewVars, dragVars, nodeCounter, uuidCounter, authVars, genVars, issued, annLog>>

\* A click on the line of a connection.
handleConnectionSelect(connectionId) ==
  /\ Exists(connections, LAMBDA c : c.id = connectionId)
  /\ selectedConnectionId' = connectionId
  /\ selectedNodeId' = NoId
  /\ lastOp' = OpAt("selectConnection", connectionId, "", selectedNodeId, Pos(0, 0))
  /\ UNCHANGED <<nodes, connections, viewVars, dragVars, nodeCounter, uuidCounter,
                 authVars, genVars, issued, annLog>>

----------------------------------------------------------------------------
\* The drag-state machine.

MaxPan == 1          \* pan steps the offset may be away from the origin
PanStep == ClientB - ClientA

handleNodeSelectKeeping(nodeId) ==
  /\ selectedNodeId' = nodeId
  /\ UNCHANGED selectedConnectionId
handleNodeSelect(nodeId) ==
  /\ selectedNodeId' = nodeId
  /\ selectedConnectionId' = NoId

\* The prompt box of a layer of a generator node takes the focus.
handlePromptFocus(nodeId) ==
  /\ nodeId \in NodeIds
  /\ NodeOf(nodes, nodeId).type = "GENERATE_IMAGE"
  /\ handleNodeSelect(nodeId)
  /\ lastOp' = OpAt("focusPrompt", nodeId, "", selectedConnectionId, Pos(0, 0))
  /\ UNCHANGED <<nodes, connections, viewVars, dragVars, idVars, authVars, genVars, annLog>>

\* Pointer-down (main button) on the canvas background.
handleMouseDown(p) ==
  /\ TopmostAt(screenToWorld(p.x, p.y, offset, scale)) = NoId
  /\ dragState' = [IdleDrag EXCEPT !.isDragging = TRUE, !.mode = "CANVAS", !.startPos = p]
  /\ selectedNodeId' = NoId
  /\ selectedConnectionId' = NoId
  /\ pan' = Some([down |-> p, from |-> offset, cur |-> p, moves |-> 0])
  /\ lastOp' = OpRes("pointerDown", 0, dragState.mode)
  /\ UNCHANGED <<nodes, connections, viewVars, rAFRef, nodeCounter, uuidCounter,
                 authVars, genVars, issued, annLog>>

\* Pointer-down on the element of a node.
handleNodeMouseDown(nodeId, p) ==
  /\ nodeId # NoId
  /\ TopmostAt(screenToWorld(p.x, p.y, offset, scale)) = nodeId
  /\ handleNodeSelect(nodeId)
  /\ dragState' = [IdleDrag EXCEPT !.isDragging = TRUE, !.mode = "NODE", !.startPos = p,
                                   !.nodeStartPos = Some(NodeOf(nodes, nodeId).position),
                                   !.draggedNodeId = nodeId]
  /\ pan' = None
  /\ lastOp' = OpRes("pointerDown", 0, dragState.mode)
  /\ UNCHANGED <<nodes, connections, viewVars, rAFRef, nodeCounter, uuidCounter,
                 authVars, genVars, issued, annLog>>

\* The plug of an image node is rendered, so that a pointer-down can reach it.
isOutputConnected(nodeId) == Exists(connections, LAMBDA c : c.sourceId = nodeId)
isDraggingConnection(nodeId) ==
  dragState.mode = "CONNECTION" /\ dragState.connectionStartNodeId = nodeId
PlugRendered(n) ==
  /\ n.type = "IMAGE_UPLOAD"
  /\ ~isOutputConnected(n.id)
  /\ ~isDraggingConnection(n.id)

\* Pointer-down on the plug of a node: the event is at the plug's screen point.
handleStartConnection(nodeId) ==
  /\ nodeId \in NodeIds
  /\ LET n == NodeOf(nodes, nodeId)
         e == worldToScreen(Pos(n.position.x + n.width + PlugDx, n.position.y + PlugDy),
                            offset, scale)
     IN /\ PlugRendered(n)
        /\ dragState' = [IdleDrag EXCEPT !.isDragging = TRUE, !.mode = "CONNECTION",
                           !.startPos = e,
                           !.connectionStartNodeId = nodeId,
                           !.connectionCurrentPos =
                              Some(screenToWorld(e.x, e.y, offset, scale))]
  /\ pan' = None
  /\ lastOp' = OpRes("pointerDown", 0, dragState.mode)
  /\ UNCHANGED <<nodes, connections, viewVars, selVars, rAFRef, nodeCounter, uuidCounter,
                 authVars, genVars, issued, annLog>>

InPanRange(off) ==
  /\ off.x >= -(MaxPan * PanStep) /\ off.x <= MaxPan * PanStep
  /\ off.y >= -(MaxPan * PanStep) /\ off.y <= MaxPan * PanStep

\* setDragState((prev) => ({ ...prev, startPos: { x: clientX, y: clientY } }))
panStartPosKept(p, startPos) == startPos
panStartPos(p, startPos) == p

\* if (rAFRef.current) cancelAnimationFrame(rAFRef.current);
\* rAFRef.current = requestAnimationFrame(callback): the callbacks pending.
requestFrameUncancelled(pending, callback) == Append(pending, callback)
requestFrame(pending, callback) == Some(callback)

\* Pointer-move over the canvas.  Panning is applied at once; node and connection
\* dragging replace the pending animation-frame callback by one that closes over
\* the pointer position and the state of this render.
handleMouseMove(p) ==
  /\ dragState.isDragging
  /\ IF dragState.mode = "CANVAS"
     THEN /\ offset' = Pos(offset.x + (p.x - dragState.startPos.x),
                           offset.y + (p.y - dragState.startPos.y))
          /\ InPanRange(offset')
          /\ dragState' = [dragState EXCEPT !.startPos = panStartPos(p, dragState.startPos)]
          /\ pan' = IF pan = None THEN None
                    ELSE Some([pan[1] EXCEPT !.cur = p,
                                             !.moves = IF @ < 2 THEN @ + 1 ELSE @])
          /\ UNCHANGED rAFRef
     ELSE /\ rAFRef' = requestFrame(rAFRef, [clientX |-> p.x, clientY |-> p.y,
                                              dragState |-> dragState,
                                              scale |-> scale, offset |-> offset])
          /\ UNCHANGED <<offset, dragState, pan>>
  /\ lastOp' = OpAt("move", IF lastOp.op = "move" /\ lastOp.arg < 2 THEN lastOp.arg + 1
                            ELSE IF lastOp.op = "move" THEN lastOp.arg ELSE 1,
                     dragState.mode, NoId, p)
  /\ UNCHANGED <<nodes, connections, scale, selVars, nodeCounter, uuidCounter,
                 authVars, genVars, issued, annLog>>

\* The position a dragged node is given by the frame callback.
draggedPositionUnscaled(cb) ==
  Pos(cb.dragState.nodeStartPos[1].x + (cb.clientX - cb.dragState.startPos.x),
      cb.dragState.nodeStartPos[1].y + (cb.clientY - cb.dragState.startPos.y))
draggedPosition(cb) ==
  LET dx == ((cb.clientX - cb.dragState.startPos.x) * ScaleOne) \div cb.scale
      dy == ((cb.clientY - cb.dragState.startPos.y) * ScaleOne) \div cb.scale
  IN Pos(cb.dragState.nodeStartPos[1].x + dx, cb.dragState.nodeStartPos[1].y + dy)

\* The pending animation-frame callback runs.
animationFrame ==
  /\ rAFRef # None
  /\ LET cb == rAFRef[1] IN
       IF cb.dragState.mode = "NODE" /\ cb.dragState.draggedNodeId # NoId
          /\ cb.dragState.nodeStartPos # None
       THEN /\ nodes' = Map(nodes, LAMBDA n :
                          IF n.id = cb.dragState.draggedNodeId
                          THEN [n EXCEPT !.position = draggedPosition(cb)] ELSE n)
            /\ UNCHANGED dragState
       ELSE IF cb.dragState.mode = "CONNECTION"
       THEN /\ dragState' = [dragState EXCEPT !.connectionCurrentPos =
                               Some(screenToWorld(cb.clientX, cb.clientY, cb.offset, cb.scale))]
            /\ UNCHANGED nodes
       ELSE UNCHANGED <<nodes, dragState>>
  /\ rAFRef' = Tail(rAFRef)
  /\ lastOp' = NoOp
  /\ UNCHANGED <<connections, viewVars, selVars, pan, nodeCounter, uuidCounter,
                 authVars, genVars, issued, annLog>>

\* The node a connection is dropped on: the first node whose drop region holds w.
dropTarget(ns, w) == FindIndex(ns, LAMBDA n : InDropRegion(n, w))

connectionExists(cs, sourceId, targetId) ==
  Exists(cs, LAMBDA c : c.sourceId = sourceId /\ c.targetId = targetId)

\* { id: crypto.randomUUID(), sourceId, targetId }
newConnectionReversed(id, sourceId, targetId) ==
  [id |-> id, sourceId |-> targetId, targetId |-> sourceId]
newConnection(id, sourceId, targetId) ==
  [id |-> id, sourceId |-> sourceId, targetId |-> targetId]

\* setDragState({ isDragging: false, mode: 'IDLE', startPos: { x: 0, y: 0 } })
afterPointerUpKeeping(drag) == [drag EXCEPT !.isDragging = FALSE, !.mode = "IDLE"]
afterPointerUp(drag) == IdleDrag

\* handleWheel: the scale after a wheel event, within 0.1 and 3.
MinScale == 1
MaxScale == 30
\* Math.min(Math.max(raw, 0.1), 3)
clampScaleAbove(raw) == IF raw > MaxScale THEN MaxScale ELSE raw
clampScale(raw) == IF raw < MinScale THEN MinScale ELSE IF raw > MaxScale THEN MaxScale ELSE raw

handleWheel(deltaY) ==
  /\ scale' = clampScale(scale - deltaY \div 100)
  /\ lastOp' = Op("wheel", scale - deltaY \div 100)
  /\ UNCHANGED <<nodes, connections, offset, selVars, dragVars, idVars, authVars, genVars,
                 annLog>>

\* The zoom buttons of the toolbar.
handleZoomIn ==
  /\ scale' = (IF scale + 1 < MaxScale THEN scale + 1 ELSE MaxScale)
  /\ lastOp' = Op("zoomIn", scale + 1)
  /\ UNCHANGED <<nodes, connections, offset, selVars, dragVars, idVars, authVars, genVars,
                 annLog>>

handleZoomOut ==
  /\ scale' = (IF scale - 1 > MinScale THEN scale - 1 ELSE MinScale)
  /\ lastOp' = Op("zoomOut", scale - 1)
  /\ UNCHANGED <<nodes, connections, offset, selVars, dragVars, idVars, authVars, genVars,
                 annLog>>

handleResetZoom ==
  /\ scale' = ScaleOne
  /\ lastOp' = Op("resetZoom", ScaleOne)
  /\ UNCHANGED <<nodes, connections, offset, selVars, dragVars, idVars, authVars, genVars,
                 annLog>>

\* if (rAFRef.current) { cancelAnimationFrame(rAFRef.current); ... }
cancelFrameSkipped(pending) == pending
cancelFrame(pending) == None

\* Pointer-up over the canvas.
handleMouseUp(p) ==
  /\ rAFRef' = cancelFrame(rAFRef)
  /\ IF dragState.mode = "CONNECTION" /\ dragState.connectionStartNodeId # NoId
     THEN LET w == screenToWorld(p.x, p.y, offset, scale)
              t == dropTarget(nodes, w)
              src == dragState.connectionStartNodeId
          IN IF t # 0 /\ nodes[t].id # src /\ nodes[t].type = "GENERATE_IMAGE"
             THEN IF ~connectionExists(connections, src, nodes[t].id)
                  THEN /\ uuidCounter.connection < MaxConnections
                       /\ connections' = Append(connections,
                              newConnection(randomUUID("connection"), src, nodes[t].id))
                       /\ uuidCounter' = [uuidCounter EXCEPT !.connection = @ + 1]
                       /\ lastOp' = OpAt("drop", Len(rAFRef), "created", src, w)
                  ELSE /\ UNCHANGED <<connections, uuidCounter>>
                       /\ lastOp' = OpAt("drop", Len(rAFRef), "duplicate", src, w)
             ELSE /\ UNCHANGED <<connections, uuidCounter>>
                  /\ lastOp' = OpAt("drop", Len(rAFRef), "discarded", src, w)
     ELSE /\ UNCHANGED <<connections, uuidCounter>>
          /\ lastOp' = OpRes("pointerUp", Len(rAFRef), dragState.mode)
  /\ dragState' = afterPointerUp(dragState)
  /\ pan' = None
  /\ UNCHANGED <<nodes, viewVars, selVars, nodeCounter, authVars, genVars, issued, annLog>>

----------------------------------------------------------------------------
\* The handlers of NodeComponent that edit the data of a node.

\* { ...n.data, ...data } on the node nodeId, every other node as it is.
mergeData(data, patch) ==
  [f \in DOMAIN data |-> IF f \in DOMAIN patch THEN patch[f] ELSE data[f]]
updateEveryNode(ns, nodeId, patch) ==
  Map(ns, LAMBDA n : [n EXCEPT !.data = mergeData(n.data, patch)])
updateNodeData(ns, nodeId, patch) ==
  Map(ns, LAMBDA n : IF n.id = nodeId THEN [n EXCEPT !.data = mergeData(n.data, patch)] ELSE n)

\* The changes of status that updateNodeData(ns, nodeId, {status}) makes.
statusChange(ns, nodeId, status) ==
  IF HasNode(ns, nodeId) /\ NodeOf(ns, nodeId).data.status # status
  THEN { <<NodeOf(ns, nodeId).data.status, status>> } ELSE {}

\* reader.onload of handleFileChange: the file the user picked has been read.
handleFileChange(nodeId, img) ==
  /\ nodeId \in NodeIds
  /\ NodeOf(nodes, nodeId).type = "IMAGE_UPLOAD"
  /\ nodes' = updateNodeData(nodes, nodeId, [imageUrl |-> img, annotations |-> << >>])
  /\ lastOp' = NoOp
  /\ UNCHANGED <<connections, viewVars, selVars, dragVars, idVars, authVars, genVars, annLog>>

Max(S) == CHOOSE m \in S : \A k \in S : k <= m

\* The id handleImageClick gives a new annotation.
newAnnotationId(annotations) ==
  IF Len(annotations) > 0 THEN Max({ a.id : a \in Range(annotations) }) + 1 ELSE 1

loggedIds(log, nodeId) == IF nodeId \in DOMAIN log THEN log[nodeId] ELSE << >>

\* A click on the image of a node while its annotate mode is on.
handleImageClick(nodeId, x, y) ==
  /\ nodeId \in NodeIds
  /\ LET n == NodeOf(nodes, nodeId)
         currentAnnotations == n.data.annotations
         newId == newAnnotationId(currentAnnotations)
     IN /\ n.type = "IMAGE_UPLOAD"
        /\ IsImage(n.data.imageUrl)
        /\ nodes' = updateNodeData(nodes, nodeId,
                      [annotations |-> Append(currentAnnotations, [id |-> newId, x |-> x, y |-> y])])
        /\ annLog' = [m \in DOMAIN annLog \cup {nodeId} |->
                        IF m = nodeId THEN Append(loggedIds(annLog, nodeId), newId)
                        ELSE annLog[m]]
  /\ lastOp' = NoOp
  /\ UNCHANGED <<connections, viewVars, selVars, dragVars, idVars, authVars, genVars>>

\* The clear button of the annotate mode.
handleClearAnnotations(nodeId) ==
  /\ nodeId \in NodeIds
  /\ NodeOf(nodes, nodeId).type = "IMAGE_UPLOAD"
  /\ IsImage(NodeOf(nodes, nodeId).data.imageUrl)
  /\ nodes' = updateNodeData(nodes, nodeId, [annotations |-> << >>])
  /\ lastOp' = Op("clearAnnotations", 0)
  /\ UNCHANGED <<connections, viewVars, selVars, dragVars, idVars, authVars, genVars, annLog>>

addLayer(nodeId) ==
  /\ nodeId \in NodeIds
  /\ LET n == NodeOf(nodes, nodeId)
         currentLayers == n.data.layers
         newLayer == [id |-> randomUUID("layer"), name |-> Len(currentLayers) + 1,
                      prompt |-> "", isEnabled |-> TRUE]
     IN /\ n.type = "GENERATE_IMAGE"
        /\ nodes' = updateNodeData(nodes, nodeId, [layers |-> Append(currentLayers, newLayer)])
  /\ uuidCounter' = [uuidCounter EXCEPT !.layer = @ + 1]
  /\ lastOp' = NoOp
  /\ UNCHANGED <<connections, viewVars, selVars, dragVars, nodeCounter, issued, authVars,
                 genVars, annLog>>

\* updateLayer(layerId, { prompt }) and updateLayer(layerId, { isEnabled }).
updateLayer(nodeId, layerId, field, value) ==
  /\ nodeId \in NodeIds
  /\ LET n == NodeOf(nodes, nodeId)
         currentLayers == n.data.layers
         newLayers == Map(currentLayers, LAMBDA l :
                        IF l.id = layerId THEN mergeData(l, [f \in {field} |-> value]) ELSE l)
     IN /\ n.type = "GENERATE_IMAGE"
        /\ Exists(currentLayers, LAMBDA l : l.id = layerId)
        /\ nodes' = updateNodeData(nodes, nodeId, [layers |-> newLayers])
  /\ lastOp' = NoOp
  /\ UNCHANGED <<connections, viewVars, selVars, dragVars, idVars, authVars, genVars, annLog>>

\* The layers deleteLayer leaves.
layersAfterDeleteUnguarded(currentLayers, layerId) ==
  SelectSeq(currentLayers, LAMBDA l : l.id # layerId)
layersAfterDelete(currentLayers, layerId) ==
  IF Len(currentLayers) <= 1 THEN currentLayers
  ELSE SelectSeq(currentLayers, LAMBDA l : l.id # layerId)

deleteLayer(nodeId, layerId) ==
  /\ nodeId \in NodeIds
  /\ LET n == NodeOf(nodes, nodeId)
         currentLayers == n.data.layers
     IN /\ n.type = "GENERATE_IMAGE"
        /\ Exists(currentLayers, LAMBDA l : l.id = layerId)
        /\ nodes' = updateNodeData(nodes, nodeId,
                                   [layers |-> layersAfterDelete(currentLayers, layerId)])
        /\ lastOp' = OpRes("deleteLayer", 0,
                           IF Len(currentLayers) <= 1 THEN "last" ELSE "deleted")
  /\ UNCHANGED <<connections, viewVars, selVars, dragVars, idVars, authVars, genVars, annLog>>

\* A choice of the number of images to generate.
setNumberOfImages(nodeId, num) ==
  /\ nodeId \in NodeIds
  /\ NodeOf(nodes, nodeId).type = "GENERATE_IMAGE"
  /\ nodes' = updateNodeData(nodes, nodeId, [numberOfImages |-> num])
  /\ lastOp' = NoOp
  /\ UNCHANGED <<connections, viewVars, selVars, dragVars, idVars, authVars, genVars, annLog>>

\* A choice in the model, aspect ratio or resolution list of a generator.
updateConfig(nodeId, field, value) ==
  /\ nodeId \in NodeIds
  /\ NodeOf(nodes, nodeId).type = "GENERATE_IMAGE"
  /\ nodes' = updateNodeData(nodes, nodeId, [f \in {field} |-> value])
  /\ lastOp' = NoOp
  /\ UNCHANGED <<connections, viewVars, selVars, dragVars, idVars, authVars, genVars, annLog>>

\* A click on the thumbnail of a generated image (index counts from 0).
handleSelectGeneratedImageIndexOnly(nodeId, index) ==
  /\ nodeId \in NodeIds
  /\ LET n == NodeOf(nodes, nodeId) IN
       /\ n.type = "GENERATE_IMAGE"
       /\ IF index + 1 \in 1..Len(n.data.generatedImages)
             /\ IsImage(n.data.generatedImages[index + 1])
          THEN /\ nodes' = updateNodeData(nodes, nodeId, [selectedImageIndex |-> index])
               /\ lastOp' = OpAt("selectImage", index, "selected", nodeId, Pos(0, 0))
          ELSE /\ nodes' = nodes
               /\ lastOp' = OpAt("selectImage", index, "ignored", nodeId, Pos(0, 0))
  /\ UNCHANGED <<connections, viewVars, selVars, dragVars, idVars, authVars, genVars, annLog>>
handleSelectGeneratedImage(nodeId, index) ==
  /\ nodeId \in NodeIds
  /\ LET n == NodeOf(nodes, nodeId) IN
       /\ n.type = "GENERATE_IMAGE"
       /\ IF index + 1 \in 1..Len(n.data.generatedImages)
             /\ IsImage(n.data.generatedImages[index + 1])
          THEN /\ nodes' = updateNodeData(nodes, nodeId,
                             [selectedImageIndex |-> index,
                              generatedImage |-> n.data.generatedImages[index + 1]])
               /\ lastOp' = OpAt("selectImage", index, "selected", nodeId, Pos(0, 0))
          ELSE /\ nodes' = nodes
               /\ lastOp' = OpAt("selectImage", index, "ignored", nodeId, Pos(0, 0))
  /\ UNCHANGED <<connections, viewVars, selVars, dragVars, idVars, authVars, genVars, annLog>>

----------------------------------------------------------------------------
\* The canvas: the page after it has loaded, and the handlers of its pointer,
\* keyboard and toolbar events.

NodeTypes == {"IMAGE_UPLOAD", "GENERATE_IMAGE"}

Init ==
  /\ nodes = << >>
  /\ connections = << >>
  /\ scale = ScaleOne
  /\ offset = Pos(0, 0)
  /\ selectedNodeId = NoId
  /\ selectedConnectionId = NoId
  /\ dragState = IdleDrag
  /\ rAFRef = None
  /\ pan = None
  /\ nodeCounter = 1
  /\ uuidCounter = [node |-> 0, layer |-> 0, connection |-> 0]
  /\ user = FALSE
  /\ storedKey = FALSE
  /\ aistudio = FALSE
  /\ generator = None
  /\ calls = {}
  /\ callCounter = 0
  /\ issued = {}
  /\ annLog = << >>
  /\ lastOp = NoOp
  /\ requests = << >>
  /\ transitions = {}
  /\ outcomes = {}

\* One pointer gesture at a time: a button is pressed only while none is held,
\* and every press over the canvas is released over it.
PointerFree == ~dragState.isDragging

Next ==
  \/ nodeCounter <= MaxNodes /\ \E type \in NodeTypes : addNode(type)
  \/ \E nodeId \in NodeIds : deleteNode(nodeId)
  \/ \E c \in Range(connections) : handleConnectionSelect(c.id)
  \/ \E c \in Range(connections) : deleteConnection(c.id)
  \/ handleKeyDown
  \/ PointerFree /\ \E nodeId \in NodeIds, p \in ClientPts : handleNodeMouseDown(nodeId, p)
  \/ PointerFree /\ \E nodeId \in NodeIds : handleStartConnection(nodeId)
  \/ \E p \in ClientPts : handleMouseMove(p)
  \/ animationFrame
  \/ \E p \in ClientPts : handleMouseUp(p)

Spec == Init /\ [][Next]_vars

\* Selecting and deleting: the presses on the canvas background and the focus
\* of a prompt box as well, without the pointer moves.
NextSelect ==
  \/ nodeCounter <= MaxNodes /\ \E type \in NodeTypes : addNode(type)
  \/ \E nodeId \in NodeIds : deleteNode(nodeId)
  \/ \E c \in Range(connections) : handleConnectionSelect(c.id)
  \/ \E c \in Range(connections) : deleteConnection(c.id)
  \/ handleKeyDown
  \/ PointerFree /\ \E p \in ClientPts : handleMouseDown(p)
  \/ PointerFree /\ \E nodeId \in NodeIds, p \in ClientPts : handleNodeMouseDown(nodeId, p)
  \/ PointerFree /\ \E nodeId \in NodeIds : handleStartConnection(nodeId)
  \/ \E nodeId \in NodeIds : handlePromptFocus(nodeId)
  \/ \E p \in ClientPts : handleMouseUp(p)

SpecSelect == Init /\ [][NextSelect]_vars

----------------------------------------------------------------------------
\* Editing the nodes of a canvas: annotations of image nodes, layers of
\* generator nodes.

UploadImages == { Img("a"), Img("b") }
ClickPoints == { Pos(25, 25), Pos(75, 75) }  \* percent of the image box
PromptTexts == { "", " ", "A" }      \* " " is a prompt that trims to nothing

GeneratorIds == { n.id : n \in { m \in Range(nodes) : m.type = "GENERATE_IMAGE" } }
UploadIds == { n.id : n \in { m \in Range(nodes) : m.type = "IMAGE_UPLOAD" } }
LayerIds(nodeId) == { l.id : l \in Range(NodeOf(nodes, nodeId).data.layers) }

NextEdit ==
  \/ nodeCounter <= MaxEditNodes /\ \E type \in NodeTypes : addNode(type)
  \/ \E nodeId \in NodeIds : deleteNode(nodeId)
  \/ \E nodeId \in UploadIds, img \in UploadImages : handleFileChange(nodeId, img)
  \/ \E nodeId \in UploadIds, c \in ClickPoints :
       /\ Len(loggedIds(annLog, nodeId)) < MaxAnnotations
       /\ handleImageClick(nodeId, c.x, c.y)
  \/ \E nodeId \in UploadIds : handleClearAnnotations(nodeId)
  \/ \E nodeId \in GeneratorIds : uuidCounter.layer < MaxLayers /\ addLayer(nodeId)
  \/ \E nodeId \in GeneratorIds : \E layerId \in LayerIds(nodeId), text \in PromptTexts :
       updateLayer(nodeId, layerId, "prompt", text)
  \/ \E nodeId \in GeneratorIds : \E layerId \in LayerIds(nodeId), on \in BOOLEAN :
       updateLayer(nodeId, layerId, "isEnabled", on)
  \/ \E nodeId \in GeneratorIds : \E layerId \in LayerIds(nodeId) : deleteLayer(nodeId, layerId)

SpecEdit == Init /\ [][NextEdit]_vars

----------------------------------------------------------------------------
\* The generation orchestrator: handleTriggerGeneration and
\* generateImageWithGemini.  An invocation runs up to its next await in one
\* step; the nodes, connections and user it reads are those of the render the
\* button was clicked in, the updates it makes go to the current nodes.

Trim(text) == IF text = " " THEN "" ELSE text

activeLayersIgnoringEnabled(layers) == SelectSeq(layers, LAMBDA l : Trim(l.prompt) # "")
activeLayers(layers) == SelectSeq(layers, LAMBDA l : l.isEnabled /\ Trim(l.prompt) # "")

\* if (activeLayers.length === 0 && !targetNode.data.prompt) return;
neverNothing(data) == FALSE
nothingToGenerate(data) == Len(activeLayers(data.layers)) = 0 /\ data.prompt = ""

\* activeLayers.map(l => l.prompt).join('\n'), as the sequence of its lines.
compilePrompt(data) ==
  IF Len(activeLayers(data.layers)) > 0
  THEN Map(activeLayers(data.layers), LAMBDA l : l.prompt)
  ELSE << data.prompt >>

\* sourceNodes.sort((a, b) => a.data.displayId - b.data.displayId)
insertByDisplayId(sorted, n) ==
  LET k == Cardinality({ i \in 1..Len(sorted) : sorted[i].data.displayId <= n.data.displayId })
  IN SubSeq(sorted, 1, k) \o << n >> \o SubSeq(sorted, k + 1, Len(sorted))
RECURSIVE sortRec(_)
sortRec(s) ==
  IF s = << >> THEN << >>
  ELSE insertByDisplayId(sortRec(SubSeq(s, 1, Len(s) - 1)), s[Len(s)])
connectionOrder(s) == s
sortByDisplayId(s) == sortRec(s)

\* The nodes connected into nodeId, in the order of the connections.
incomingSources(ns, cs, nodeId) ==
  LET incoming == SelectSeq(cs, LAMBDA c : c.targetId = nodeId)
      present == SelectSeq(incoming, LAMBDA c : HasNode(ns, c.sourceId))
  IN Map(present, LAMBDA c : NodeOf(ns, c.sourceId))

sourceNodesOf(ns, cs, nodeId) == sortByDisplayId(incomingSources(ns, cs, nodeId))

\* The image a source node contributes, NoImage when it has none.
imageDataOf(node) ==
  IF node.type = "IMAGE_UPLOAD" /\ IsImage(node.data.imageUrl) THEN node.data.imageUrl
  ELSE IF node.type = "GENERATE_IMAGE" /\ IsImage(node.data.generatedImage)
  THEN node.data.generatedImage
  ELSE NoImage

bakeAnnotationsToImage(img, annotations) == [img EXCEPT !.marks = annotations]

\* The number the note of the source node at index i (from 1) gives its image.
noteNumber(i, before) == i

\* The loop over sourceNodes: one entry per node that has an image, with the
\* note pushed to idMappingDescription and the image pushed to referenceImages.
referenceEntries(sourceNodes) ==
  LET entry(i) ==
        LET node == sourceNodes[i]
            before == Cardinality({ j \in 1..(i - 1) : IsImage(imageDataOf(sourceNodes[j])) })
            baked == Len(node.data.annotations) > 0
        IN [raw |-> imageDataOf(node),
            image |-> IF baked
                      THEN bakeAnnotationsToImage(imageDataOf(node), node.data.annotations)
                      ELSE imageDataOf(node),
            note |-> [k |-> noteNumber(i, before), displayId |-> node.data.displayId,
                      baked |-> baked],
            displayId |-> node.data.displayId]
  IN SelectSeq([i \in 1..Len(sourceNodes) |-> entry(i)], LAMBDA e : IsImage(e.raw))

\* finalPrompt: the compiled lines, and the note block when there is a note.
finalPrompt(compiled, notes) ==
  [lines |-> compiled, block |-> IF Len(notes) > 0 THEN Some(notes) ELSE None]

NoRequest == [prompt |-> finalPrompt(<< >>, << >>), referenceImages |-> << >>,
              numberOfImages |-> 0]

\* The settings of a generator node that handleTriggerGeneration reads.
ConfigOf(data) ==
  [layers |-> data.layers, model |-> data.model, aspectRatio |-> data.aspectRatio,
   imageResolution |-> data.imageResolution, numberOfImages |-> data.numberOfImages]

Call(id, nodeId, stage, sn, sc, su) ==
  [id |-> id, nodeId |-> nodeId, stage |-> stage, snapNodes |-> sn,
   snapConnections |-> sc, snapUser |-> su, request |-> NoRequest, results |-> << >>,
   read |-> ConfigOf(NodeOf(sn, nodeId).data)]

\* What a step of an invocation leaves: the nodes, the invocation if it goes on,
\* and what the step adds to the histories.
Left(ns, next, reqs, trans, outs) ==
  [nodes |-> ns, next |-> next, reqs |-> reqs, trans |-> trans, outs |-> outs]

\* Whether the settings of the node have been changed since
\* handleTriggerGeneration read them.
editedSince(c, ns) ==
  IF HasNode(ns, c.nodeId) THEN ConfigOf(NodeOf(ns, c.nodeId).data) # c.read ELSE FALSE

\* catch: updateNodeData(nodeId, { status: 'error' })
failCall(c, ns, trans) ==
  Left(updateNodeData(ns, c.nodeId, [status |-> "error"]), None, << >>,
       trans \cup statusChange(ns, c.nodeId, "error"),
       { [call |-> c.id, node |-> c.nodeId, status |-> "error", images |-> << >>,
          fetches |-> Len(c.results), applied |-> HasNode(ns, c.nodeId),
          edited |-> editedSince(c, ns)] })

\* From the end of the loop to the first await of generateImageWithGemini.
sendRequest(c, ns, trans) ==
  LET target == NodeOf(c.snapNodes, c.nodeId)
      sources == sourceNodesOf(c.snapNodes, c.snapConnections, c.nodeId)
      entries == referenceEntries(sources)
      notes == Map(entries, LAMBDA e : e.note)
      request == [prompt |-> finalPrompt(compilePrompt(target.data), notes),
                  referenceImages |-> Map(entries, LAMBDA e : e.image),
                  numberOfImages |-> IF target.data.numberOfImages = 0 THEN 1
                                     ELSE target.data.numberOfImages]
      logged == [call |-> c.id, node |-> c.nodeId, request |-> request,
                 notes |-> notes,
                 layers |-> target.data.layers, legacy |-> target.data.prompt,
                 sources |-> Map(entries, LAMBDA e : e.displayId),
                 connOrder |-> Map(incomingSources(c.snapNodes, c.snapConnections, c.nodeId),
                                   LAMBDA n : n.data.displayId),
                 connected |-> { n.data.displayId :
                                   n \in { m \in Range(incomingSources(c.snapNodes,
                                             c.snapConnections, c.nodeId)) :
                                           IsImage(imageDataOf(m)) } }]
  IN IF ~c.snapUser THEN failCall(c, ns, trans)
     ELSE Left(ns,
               Some([c EXCEPT !.stage = "key", !.request = request,
                              !.snapNodes = << >>, !.snapConnections = << >>]),
               << logged >>, trans, {})

\* From the lookup of the target node to the first await of the loop.
prepare(c, ns) ==
  LET target == NodeOf(c.snapNodes, c.nodeId)
      sources == sourceNodesOf(c.snapNodes, c.snapConnections, c.nodeId)
      entries == referenceEntries(sources)
      loading == updateNodeData(ns, c.nodeId,
                   [status |-> "loading", generatedImage |-> NoImage,
                    generatedImages |-> << >>])
      trans == statusChange(ns, c.nodeId, "loading")
  IN IF ~HasNode(c.snapNodes, c.nodeId) THEN Left(ns, None, << >>, {}, {})
     ELSE IF nothingToGenerate(target.data) THEN Left(ns, None, << >>, {}, {})
     ELSE IF Exists(entries, LAMBDA e : e.note.baked)
     THEN Left(loading, Some([c EXCEPT !.stage = "baking"]), << >>, trans, {})
     ELSE sendRequest(c, loading, trans)

\* The awaited bakes have settled: img.onload of every one (ok), or img.onerror.
afterBake(c, ns, ok) ==
  IF ~ok THEN failCall(c, ns, {}) ELSE sendRequest(c, ns, {})

\* userApiService.getVectorEngineKey has settled: the N requests go out.
afterKeyUnchecked(c, ns, key) ==
  Left(ns, Some([c EXCEPT !.stage = "fetching",
                          !.results = [i \in 1..c.request.numberOfImages |-> NoImage]]),
       << >>, {}, {})
afterKey(c, ns, key) ==
  IF ~key THEN failCall(c, ns, {})
  ELSE Left(ns, Some([c EXCEPT !.stage = "fetching",
                               !.results = [i \in 1..c.request.numberOfImages |-> NoImage]]),
            << >>, {}, {})

GeneratedImage(callId, i) == [data |-> "g", marks |-> << >>, call |-> callId, idx |-> i]

\* updateNodeData(nodeId, { status: 'success', generatedImages: resultImages,
\*                          generatedImage: resultImages[0], selectedImageIndex: 0 })
successUpdateLast(results) ==
  [status |-> "success", generatedImages |-> results,
   generatedImage |-> results[Len(results)], selectedImageIndex |-> 0]
successUpdate(results) ==
  [status |-> "success", generatedImages |-> results,
   generatedImage |-> results[1], selectedImageIndex |-> 0]

\* Request i of the invocation has settled.
afterFetchFromSnapshot(c, ns, i, ok) ==
  LET results == [c.results EXCEPT ![i] = GeneratedImage(c.id, i)]
      done == successUpdate(results)
      stale == [f \in DOMAIN c.read \cup DOMAIN done |->
                  IF f \in DOMAIN done THEN done[f] ELSE c.read[f]]
  IN IF ~ok THEN failCall(c, ns, {})
     ELSE IF \A j \in 1..Len(results) : IsImage(results[j])
     THEN Left(updateNodeData(ns, c.nodeId, stale),
               None, << >>, statusChange(ns, c.nodeId, "success"),
               { [call |-> c.id, node |-> c.nodeId, status |-> "success",
                  images |-> results, fetches |-> Len(c.results),
                  applied |-> HasNode(ns, c.nodeId), edited |-> editedSince(c, ns)] })
     ELSE Left(ns, Some([c EXCEPT !.results = results]), << >>, {}, {})
afterFetch(c, ns, i, ok) ==
  LET results == [c.results EXCEPT ![i] = GeneratedImage(c.id, i)]
  IN IF ~ok THEN failCall(c, ns, {})
     ELSE IF \A j \in 1..Len(results) : IsImage(results[j])
     THEN Left(updateNodeData(ns, c.nodeId, successUpdate(results)),
               None, << >>, statusChange(ns, c.nodeId, "success"),
               { [call |-> c.id, node |-> c.nodeId, status |-> "success",
                  images |-> results, fetches |-> Len(c.results),
                  applied |-> HasNode(ns, c.nodeId), edited |-> editedSince(c, ns)] })
     ELSE Left(ns, Some([c EXCEPT !.results = results]), << >>, {}, {})

\* The step of invocation c that leaves `left` is taken.
advance(c, left) ==
  /\ nodes' = left.nodes
  /\ calls' = (calls \ {c}) \cup Range(left.next)
  /\ requests' = requests \o left.reqs
  /\ transitions' = transitions \cup left.trans
  /\ outcomes' = outcomes \cup left.outs
  /\ lastOp' = NoOp
  /\ UNCHANGED <<connections, viewVars, selVars, dragVars, idVars, authVars, annLog>>

\* A click on the generate button of a node, which is disabled while loading.
handleTriggerGeneration(nodeId) ==
  /\ nodeId \in NodeIds
  /\ NodeOf(nodes, nodeId).type = "GENERATE_IMAGE"
  /\ NodeOf(nodes, nodeId).data.status # "loading"
  /\ callCounter' = callCounter + 1
  /\ LET c == Call(callCounter + 1, nodeId, "aistudio", nodes, connections, user)
     IN IF aistudio
        THEN advance(c, Left(nodes, Some(c), << >>, {}, {}))
        ELSE advance(c, prepare(c, nodes))

\* window.aistudio.hasSelectedApiKey / openSelectKey have settled.
aistudioSettled(c) ==
  /\ c \in calls /\ c.stage = "aistudio"
  /\ advance(c, prepare(c, nodes))
  /\ UNCHANGED callCounter

bakeSettled(c, ok) ==
  /\ c \in calls /\ c.stage = "baking"
  /\ advance(c, afterBake(c, nodes, ok))
  /\ UNCHANGED callCounter

keySettled(c) ==
  /\ c \in calls /\ c.stage = "key"
  /\ advance(c, afterKey(c, nodes, storedKey))
  /\ UNCHANGED callCounter

fetchSettled(c, i, ok) ==
  /\ c \in calls /\ c.stage = "fetching"
  /\ i \in 1..Len(c.results) /\ ~IsImage(c.results[i])
  /\ advance(c, afterFetch(c, nodes, i, ok))
  /\ UNCHANGED callCounter

----------------------------------------------------------------------------
\* GeminiImageGenerator of the GMAPI package: generate(), the ImageAPI call it
\* awaits and processResult().

DefaultModel == "gemini-2.5-flash-image-preview"
Models == { "", "2.5", "3.0", "gemini-custom", "other" }

resolveModel(model) ==
  IF model = "" THEN DefaultModel
  ELSE IF model = "2.5" THEN "gemini-2.5-flash-image-preview"
  ELSE IF model = "3.0" THEN "gemini-3-pro-image-preview"
  ELSE IF model = "gemini-custom" THEN model
  ELSE DefaultModel

\* What createGemini25FlashImage / createGemini30FlashImage return: they catch
\* every error of the request and report it in the result; an answer carries
\* the image_data extracted from its content.
apiFailure(message) == [success |-> FALSE, error |-> message, hasImage |-> FALSE]
apiAnswer(hasImage) == [success |-> TRUE, error |-> "", hasImage |-> hasImage]

\* processResult: the result object built from what the API method returned;
\* a failed save of the image or of the logs is caught and leaves no path.
processResult(apiResult, options, saveOk, logOk) ==
  IF ~apiResult.success
  THEN [success |-> FALSE, error |-> apiResult.error, hasImage |-> FALSE,
        imagePath |-> FALSE, logPath |-> FALSE]
  ELSE [success |-> TRUE, error |-> "", hasImage |-> apiResult.hasImage,
        imagePath |-> apiResult.hasImage /\ options.saveImage /\ saveOk,
        logPath |-> options.saveLog /\ logOk]

\* The object generate() returns once the awaited call and processResult are
\* done: neither throws, so it is the result with success set.
generateResult(processed) == [processed EXCEPT !.success = TRUE]

\* generate(options) with a prompt that is a non-empty string: up to the await.
generate(options) ==
  /\ IF generator = None THEN TRUE ELSE generator[1].stage = "returned"
  /\ generator' = Some([stage |-> "calling", options |-> options,
                         model |-> resolveModel(options.model),
                         api |-> apiFailure(""), result |-> processResult(apiFailure(""),
                                                             options, FALSE, FALSE)])
  /\ lastOp' = NoOp
  /\ UNCHANGED <<nodes, connections, viewVars, selVars, dragVars, idVars, user, storedKey,
                 aistudio, genVars, annLog>>

\* The request has settled: with an error (failed), or with an answer.
apiSettled(failed, hasImage, saveOk, logOk) ==
  /\ IF generator = None THEN FALSE ELSE generator[1].stage = "calling"
  /\ LET g == generator[1]
         apiResult == IF failed THEN apiFailure("Request failed")
                      ELSE apiAnswer(hasImage)
     IN generator' = Some([g EXCEPT !.stage = "returned", !.api = apiResult,
                             !.result = generateResult(
                                          processResult(apiResult, g.options, saveOk, logOk))])
  /\ lastOp' = NoOp
  /\ UNCHANGED <<nodes, connections, viewVars, selVars, dragVars, idVars, user, storedKey,
                 aistudio, genVars, annLog>>

GenerateOptions ==
  [prompt : {"A", "B"}, model : Models, saveImage : BOOLEAN, saveLog : BOOLEAN]

NextGMAPI ==
  \/ \E options \in GenerateOptions : generate(options)
  \/ \E failed, hasImage, saveOk, logOk \in BOOLEAN : apiSettled(failed, hasImage, saveOk, logOk)

SpecGMAPI == Init /\ [][NextGMAPI]_vars

----------------------------------------------------------------------------
\* Generation on a canvas already built: GenUploads upload nodes added first,
\* then one generator, and connections from some of the uploads to the
\* generator drawn in any order.

GenUploads == 2
GenAnnotations == 1

GenNodes ==
  [i \in 1..(GenUploads + 1) |->
     IF i <= GenUploads
     THEN newNode(i, "IMAGE_UPLOAD", i, 0, Pos(0, 0), ScaleOne)
     ELSE newNode(i, "GENERATE_IMAGE", i, 1, Pos(0, 0), ScaleOne)]

ConnectionOrders ==
  { s \in UNION { [1..m -> 1..GenUploads] : m \in 0..GenUploads } :
      \A i, j \in DOMAIN s : i # j => s[i] # s[j] }

InitGen ==
  /\ nodes = GenNodes
  /\ \E order \in ConnectionOrders :
       /\ connections = [i \in DOMAIN order |->
                           [id |-> i, sourceId |-> order[i], targetId |-> GenUploads + 1]]
       /\ uuidCounter = [node |-> GenUploads + 1, layer |-> 1, connection |-> Len(order)]
  /\ scale = ScaleOne
  /\ offset = Pos(0, 0)
  /\ selectedNodeId = NoId
  /\ selectedConnectionId = NoId
  /\ dragState = IdleDrag
  /\ rAFRef = None
  /\ pan = None
  /\ nodeCounter = GenUploads + 2
  /\ user \in BOOLEAN
  /\ storedKey \in { k \in BOOLEAN : k => user }
  /\ aistudio \in BOOLEAN
  /\ generator = None
  /\ calls = {}
  /\ callCounter = 0
  /\ issued = { <<i, i>> : i \in 1..(GenUploads + 1) }
  /\ annLog = << >>
  /\ lastOp = NoOp
  /\ requests = << >>
  /\ transitions = {}
  /\ outcomes = {}

\* The file picked for an upload node: every node is given a file of its own.
GenFile(nodeId) == IF nodeId = 1 THEN Img("a") ELSE Img("b")

\* The canvas is edited while no generation is in flight.
Editing == calls = {}

NextGen ==
  \/ Editing /\ \E nodeId \in UploadIds : handleFileChange(nodeId, GenFile(nodeId))
  \/ Editing /\ \E nodeId \in UploadIds :
       /\ Len(loggedIds(annLog, nodeId)) < GenAnnotations
       /\ handleImageClick(nodeId, 25, 25)
  \/ Editing /\ \E nodeId \in GeneratorIds : \E layerId \in LayerIds(nodeId), text \in PromptTexts :
       updateLayer(nodeId, layerId, "prompt", text)
  \/ Editing /\ \E nodeId \in GeneratorIds, num \in 1..MaxImages : setNumberOfImages(nodeId, num)
  \/ Editing /\ \E nodeId \in GeneratorIds, index \in 0..(MaxImages - 1) :
       /\ index < Len(NodeOf(nodes, nodeId).data.generatedImages)
       /\ handleSelectGeneratedImage(nodeId, index)
  \/ callCounter < MaxCalls /\ \E nodeId \in GeneratorIds : handleTriggerGeneration(nodeId)
  \/ \E c \in calls : aistudioSettled(c)
  \/ \E c \in calls, ok \in BOOLEAN : bakeSettled(c, ok)
  \/ \E c \in calls : keySettled(c)
  \/ \E c \in calls, i \in 1..MaxImages, ok \in BOOLEAN : fetchSettled(c, i, ok)

SpecGen == InitGen /\ [][NextGen]_vars

----------------------------------------------------------------------------
\* The prompt layers of one generator: a canvas with a single generator node,
\* whose layers are added, edited, switched and deleted before it is triggered.

LayerTexts == { "", " ", "A", "B" }

InitPrompt ==
  /\ nodes = << newNode(1, "GENERATE_IMAGE", 1, 1, Pos(0, 0), ScaleOne) >>
  /\ connections = << >>
  /\ uuidCounter = [node |-> 1, layer |-> 1, connection |-> 0]
  /\ scale = ScaleOne
  /\ offset = Pos(0, 0)
  /\ selectedNodeId = NoId
  /\ selectedConnectionId = NoId
  /\ dragState = IdleDrag
  /\ rAFRef = None
  /\ pan = None
  /\ nodeCounter = 2
  /\ user = TRUE
  /\ storedKey = TRUE
  /\ aistudio \in BOOLEAN
  /\ generator = None
  /\ calls = {}
  /\ callCounter = 0
  /\ issued = { <<1, 1>> }
  /\ annLog = << >>
  /\ lastOp = NoOp
  /\ requests = << >>
  /\ transitions = {}
  /\ outcomes = {}

\* The layers are written before the first click on the generate button.
Untriggered == callCounter = 0

NextPrompt ==
  \/ Untriggered /\ \E nodeId \in GeneratorIds : uuidCounter.layer < MaxLayers /\ addLayer(nodeId)
  \/ Untriggered /\ \E nodeId \in GeneratorIds : \E layerId \in LayerIds(nodeId), text \in LayerTexts :
       updateLayer(nodeId, layerId, "prompt", text)
  \/ Untriggered /\ \E nodeId \in GeneratorIds : \E layerId \in LayerIds(nodeId), on \in BOOLEAN :
       updateLayer(nodeId, layerId, "isEnabled", on)
  \/ Untriggered /\ \E nodeId \in GeneratorIds : \E layerId \in LayerIds(nodeId) :
       deleteLayer(nodeId, layerId)
  \/ callCounter < MaxCalls /\ \E nodeId \in GeneratorIds : handleTriggerGeneration(nodeId)
  \/ \E c \in calls : aistudioSettled(c)
  \/ \E c \in calls : keySettled(c)
  \/ \E c \in calls, i \in 1..MaxImages, ok \in BOOLEAN : fetchSettled(c, i, ok)

SpecPrompt == InitPrompt /\ [][NextPrompt]_vars

----------------------------------------------------------------------------
\* Generations on two generator nodes, which may be deleted while their
\* requests are in flight.

MultiNodes ==
  [i \in 1..2 |-> newNode(i, "GENERATE_IMAGE", i, i, Pos(0, 0), ScaleOne)]

InitMulti ==
  /\ nodes = MultiNodes
  /\ connections = << >>
  /\ uuidCounter = [node |-> 2, layer |-> 2, connection |-> 0]
  /\ scale = ScaleOne
  /\ offset = Pos(0, 0)
  /\ selectedNodeId = NoId
  /\ selectedConnectionId = NoId
  /\ dragState = IdleDrag
  /\ rAFRef = None
  /\ pan = None
  /\ nodeCounter = 3
  /\ user = TRUE
  /\ storedKey = TRUE
  /\ aistudio \in BOOLEAN
  /\ generator = None
  /\ calls = {}
  /\ callCounter = 0
  /\ issued = { <<1, 1>>, <<2, 2>> }
  /\ annLog = << >>
  /\ lastOp = NoOp
  /\ requests = << >>
  /\ transitions = {}
  /\ outcomes = {}

NextMulti ==
  \/ Untriggered /\ \E nodeId \in GeneratorIds : \E layerId \in LayerIds(nodeId), text \in PromptTexts :
       updateLayer(nodeId, layerId, "prompt", text)
  \/ Untriggered /\ \E nodeId \in GeneratorIds, num \in 1..MaxImages : setNumberOfImages(nodeId, num)
  \/ \E nodeId \in NodeIds : deleteNode(nodeId)
  \/ callCounter < MaxCalls /\ \E nodeId \in GeneratorIds : handleTriggerGeneration(nodeId)
  \/ \E c \in calls : aistudioSettled(c)
  \/ \E c \in calls : keySettled(c)
  \/ \E c \in calls, i \in 1..MaxImages, ok \in BOOLEAN : fetchSettled(c, i, ok)

SpecMulti == InitMulti /\ [][NextMulti]_vars

----------------------------------------------------------------------------
\* A generator node whose settings stay editable while its requests are
\* in flight: the controls of a node are not disabled while it is loading.

ConfigChoices ==
  [model |-> { "gemini-2.5-flash-image-preview", "gemini-3-pro-image-preview" },
   aspectRatio |-> { "1:1", "16:9" },
   imageResolution |-> { "1K", "2K" }]

NextBusy ==
  \/ \E nodeId \in GeneratorIds : \E layerId \in LayerIds(nodeId), text \in { "A", "B" } :
       updateLayer(nodeId, layerId, "prompt", text)
  \/ \E nodeId \in GeneratorIds, field \in DOMAIN ConfigChoices :
       \E value \in ConfigChoices[field] : updateConfig(nodeId, field, value)
  \/ \E nodeId \in GeneratorIds, num \in 1..MaxImages : setNumberOfImages(nodeId, num)
  \/ callCounter < MaxCalls /\ \E nodeId \in GeneratorIds : handleTriggerGeneration(nodeId)
  \/ \E c \in calls : keySettled(c)
  \/ \E c \in calls, i \in 1..MaxImages, ok \in BOOLEAN : fetchSettled(c, i, ok)

\* The thumbnails of a generator node: handleSelectGeneratedImage with every
\* index, also while an invocation is in flight.
NextThumb ==
  \/ \E nodeId \in GeneratorIds : \E layerId \in LayerIds(nodeId) :
       updateLayer(nodeId, layerId, "prompt", "A")
  \/ \E nodeId \in GeneratorIds, num \in 1..MaxImages : setNumberOfImages(nodeId, num)
  \/ \E nodeId \in GeneratorIds, index \in -1..MaxImages :
       handleSelectGeneratedImage(nodeId, index)
  \/ callCounter < MaxCalls /\ \E nodeId \in GeneratorIds : handleTriggerGeneration(nodeId)
  \/ \E c \in calls : aistudioSettled(c)
  \/ \E c \in calls : keySettled(c)
  \/ \E c \in calls, i \in 1..MaxImages, ok \in BOOLEAN : fetchSettled(c, i, ok)

SpecThumb == InitPrompt /\ [][NextThumb]_vars

\* The page runs outside AI Studio.
InitBusy == InitPrompt /\ ~aistudio

SpecBusy == InitBusy /\ [][NextBusy]_vars

----------------------------------------------------------------------------
\* The pointer gestures on a canvas of one image node and one generator node.
\* In SpecDrag a button may be pressed while a drag is under way: the canvas
\* hears of a release only when it happens over it, and the pointer-down of a
\* node answers to every button.  In SpecView the gestures come one at a time
\* and the wheel changes the zoom level between and during them.

ZoomSteps == 1       \* wheel steps the scale may be below 1
DragB == 660
DragPts == { Pos(ClientA, ClientY), Pos(DragB, ClientY) }

InZoomRange(sc) == sc >= ScaleOne - ZoomSteps /\ sc <= ScaleOne

DragNodes ==
  << newNode(1, "IMAGE_UPLOAD", 1, 0, Pos(0, 0), ScaleOne),
     newNode(2, "GENERATE_IMAGE", 2, 1, Pos(0, 0), ScaleOne) >>

InitDrag ==
  /\ nodes = DragNodes
  /\ connections = << >>
  /\ uuidCounter = [node |-> 2, layer |-> 1, connection |-> 0]
  /\ scale = ScaleOne
  /\ offset = Pos(0, 0)
  /\ selectedNodeId = NoId
  /\ selectedConnectionId = NoId
  /\ dragState = IdleDrag
  /\ rAFRef = None
  /\ pan = None
  /\ nodeCounter = 3
  /\ user = FALSE
  /\ storedKey = FALSE
  /\ aistudio = FALSE
  /\ generator = None
  /\ calls = {}
  /\ callCounter = 0
  /\ issued = { <<1, 1>>, <<2, 2>> }
  /\ annLog = << >>
  /\ lastOp = NoOp
  /\ requests = << >>
  /\ transitions = {}
  /\ outcomes = {}

NextDrag ==
  \/ \E p \in DragPts : handleMouseDown(p)
  \/ \E nodeId \in NodeIds, p \in DragPts : handleNodeMouseDown(nodeId, p)
  \/ \E nodeId \in NodeIds : handleStartConnection(nodeId)
  \/ \E p \in DragPts : handleMouseMove(p)
  \/ animationFrame
  \/ \E p \in DragPts : handleMouseUp(p)

SpecDrag == InitDrag /\ [][NextDrag]_vars

NextView ==
  \/ PointerFree /\ \E p \in DragPts : handleMouseDown(p)
  \/ PointerFree /\ \E nodeId \in NodeIds, p \in DragPts : handleNodeMouseDown(nodeId, p)
  \/ \E p \in DragPts : handleMouseMove(p)
  \/ animationFrame
  \/ \E p \in DragPts : handleMouseUp(p)
  \/ \E deltaY \in {-100, 100} : handleWheel(deltaY) /\ InZoomRange(scale')

SpecView == InitDrag /\ [][NextView]_vars

\* Zooming over the whole range of the scale, with pans between: wheel events
\* of one notch and of a sweep that overshoots either end.
WheelDeltas == {-4000, -100, 100, 4000}

NextZoom ==
  \/ handleZoomIn
  \/ handleZoomOut
  \/ handleResetZoom
  \/ \E deltaY \in WheelDeltas : handleWheel(deltaY)
  \/ PointerFree /\ \E p \in DragPts : handleMouseDown(p)
  \/ \E p \in DragPts : handleMouseMove(p)
  \/ \E p \in DragPts : handleMouseUp(p)

SpecZoom == InitDrag /\ [][NextZoom]_vars

\* The coordinate transform: a pointer event at the place where the content
\* layer paints the world point p, on a canvas element that begins at rect,
\* and the world point screenToWorld makes of it.
WorldPts == { Pos(x, y) : x \in {-200, 0, 250}, y \in {0, 150} }
CanvasOrigins == { Pos(0, 0), Pos(64, 48) }

eventAtWorldPoint(p, rect) ==
  /\ LET e == worldToScreenAt(p, rect, offset, scale)
     IN lastOp' = OpFrom("locate", 0, "", NoId,
                         screenToWorldAt(e.x, e.y, rect, offset, scale), p)
  /\ UNCHANGED <<nodes, connections, viewVars, selVars, dragVars, idVars, authVars, genVars,
                 annLog>>

NextTransform ==
  \/ NextZoom
  \/ \E p \in WorldPts, rect \in CanvasOrigins : eventAtWorldPoint(p, rect)

SpecTransform == InitDrag /\ [][NextTransform]_vars

----------------------------------------------------------------------------
\* Properties.

GeneratorNodes == { n \in Range(nodes) : n.type = "GENERATE_IMAGE" }
OutcomesOf(nodeId) == { o \in outcomes : o.node = nodeId }
LastOutcome(nodeId) ==
  CHOOSE o \in OutcomesOf(nodeId) : \A q \in OutcomesOf(nodeId) : q.call <= o.call

\* C1: when generation has been triggered more than once on a generator node
\* and every invocation has ended, the status and the result images of the node
\* are those of the invocation that was initiated last, whatever the order in
\* which the responses arrived.
LaterCallWins ==
  \A n \in GeneratorNodes :
    (calls = {} /\ OutcomesOf(n.id) # {}) =>
      /\ n.data.status = LastOutcome(n.id).status
      /\ n.data.status = "success" => n.data.generatedImages = LastOutcome(n.id).images

\* C2: in every generation request the notes and the reference images agree:
\* there are as many notes as images, the note block is in the prompt exactly
\* when there is an image, and the note "image k is [node d]" has the image of
\* the node with displayId d at place k of the list.
NotesMatchReferenceImages ==
  \A r \in Range(requests) :
    /\ Len(r.notes) = Len(r.request.referenceImages)
    /\ (r.request.prompt.block # None) <=> (Len(r.request.referenceImages) > 0)
    /\ \A j \in 1..Len(r.notes) :
         /\ r.notes[j].k \in 1..Len(r.request.referenceImages)
         /\ r.sources[r.notes[j].k] = r.notes[j].displayId

\* C3: within an image node the id of every annotation added is greater than
\* every id given out before in that node, also after the annotations have
\* been cleared.
AnnotationIdsNeverReused ==
  \A nodeId \in DOMAIN annLog :
    \A i, j \in 1..Len(annLog[nodeId]) : i < j => annLog[nodeId][i] < annLog[nodeId][j]

\* C4: a node whose generation has failed has status error and no generated
\* image stored, neither the list nor the image shown.
FailureKeepsNoImages ==
  \A n \in GeneratorNodes :
    n.data.status = "error" =>
      n.data.generatedImages = << >> /\ n.data.generatedImage = NoImage

AllowedTransitions ==
  { <<"idle", "loading">>, <<"loading", "success">>, <<"loading", "error">>,
    <<"success", "loading">>, <<"error", "loading">> }

\* C5: the status of a generator node changes only along idle -> loading,
\* loading -> success, loading -> error, success -> loading, error -> loading.
StatusFollowsStateMachine == transitions \subseteq AllowedTransitions

\* C6: every generator node has at least one layer in every reachable state,
\* and deleting the only layer of a node leaves its layers as they are.
AtLeastOneLayer ==
  /\ [](\A n \in GeneratorNodes : Len(n.data.layers) >= 1)
  /\ [][(lastOp'.op = "deleteLayer" /\ lastOp'.res = "last") => nodes' = nodes]_vars
LastLayerKept ==
  /\ lastOp.op = "deleteLayer" /\ lastOp.res = "last"
  /\ \E n \in GeneratorNodes : Len(n.data.layers) = 1

SamePair(c, d) == c.sourceId = d.sourceId /\ c.targetId = d.targetId

DeleteNodeCascades ==
  [][\A id \in NodeIds :
       ~HasNode(nodes', id) =>
         /\ nodes' = SelectSeq(nodes, LAMBDA n : n.id # id)
         /\ connections' =
              SelectSeq(connections, LAMBDA c : c.sourceId # id /\ c.targetId # id)]_vars
NodeDeletedOthersKept ==
  /\ lastOp.op = "deleteNode" /\ lastOp.arg = 1
  /\ Len(connections) >= 1
  /\ Len(nodes) >= 2

\* C9: displayIds come from a counter that starts at 1 and goes up by one per
\* node created: the nodes ever created have pairwise distinct displayIds, a
\* node keeps the displayId it was created with, and the displayId of a deleted
\* node is not given out again.
DisplayIdsUniqueAndStable ==
  /\ \A a, b \in issued : (a[1] = b[1] \/ a[2] = b[2]) => a = b
  /\ { a[2] : a \in issued } = 1..Cardinality(issued)
  /\ nodeCounter = Cardinality(issued) + 1
  /\ \A n \in Range(nodes) : <<n.id, n.data.displayId>> \in issued
NodeCreatedAfterDeletion ==
  /\ lastOp.op = "addNode"
  /\ \E a \in issued : ~HasNode(nodes, a[1])

\* C10: the reference images of a generation request are the images of the
\* connected source nodes that have one, in ascending order of displayId,
\* whatever the order in which the connections were created.
ReferenceImagesAscending ==
  \A r \in Range(requests) :
    /\ Len(r.sources) = Len(r.request.referenceImages)
    /\ { r.sources[j] : j \in 1..Len(r.sources) } = r.connected
    /\ \A i, j \in 1..Len(r.sources) : i < j => r.sources[i] < r.sources[j]
    /\ \A j \in 1..Len(r.sources) :
         r.request.referenceImages[j].data = GenFile(r.sources[j]).data
ConnectedInDescendingOrder ==
  \E r \in Range(requests) :
    /\ Len(r.request.referenceImages) = 2
    /\ r.connOrder = << 2, 1 >>


\* The layers of a logged request that are enabled with a prompt that is not
\* blank, as indices into the layer list.
QualifyingLayers(layers) ==
  { i \in 1..Len(layers) : layers[i].isEnabled /\ layers[i].prompt \notin {"", " "} }

\* C11: the compiled prompt of a request is the prompt text of exactly the
\* layers that are enabled with non-blank text, in list order, one line each;
\* a disabled layer never contributes; the legacy prompt is the compiled
\* prompt only when no layer qualifies.
CompiledPromptIsEnabledLayers ==
  \A r \in Range(requests) :
    LET idx == QualifyingLayers(r.layers)
        lines == r.request.prompt.lines
        kth(k) == CHOOSE i \in idx : Cardinality({ j \in idx : j <= i }) = k
    IN IF idx = {}
       THEN lines = << r.legacy >>
       ELSE /\ Len(lines) = Cardinality(idx)
            /\ \A k \in 1..Len(lines) : lines[k] = r.layers[kth(k)].prompt

\* A request sent from three layers of which a disabled one, with text, sits
\* between two that qualify.
DisabledLayerBetweenTwo ==
  \E r \in Range(requests) :
    /\ Len(r.layers) = 3
    /\ QualifyingLayers(r.layers) = {1, 3}
    /\ r.layers[2].prompt \in {"A", "B"}
    /\ r.layers[1].prompt # r.layers[3].prompt

\* A generator node with no enabled non-blank layer and no legacy prompt.
NothingToSend(node) == QualifyingLayers(node.data.layers) = {} /\ node.data.prompt = ""

\* C12: a trigger on a node with no enabled non-blank layer and no legacy
\* prompt is a no-op: the nodes (status and result images with them) are
\* unchanged and no request is sent, whether the handler reaches its test at
\* the click or after the aistudio key dialog has settled.
EmptyTriggerIsNoOp ==
  /\ [](\A r \in Range(requests) : QualifyingLayers(r.layers) # {} \/ r.legacy # "")
  /\ [][(/\ callCounter' = callCounter + 1
          /\ ~aistudio
          /\ \A n \in GeneratorNodes : NothingToSend(n))
         => /\ nodes' = nodes /\ requests' = requests
            /\ calls' = calls /\ transitions' = transitions /\ outcomes' = outcomes]_vars
  /\ [][\A c \in calls :
          (/\ c.stage = "aistudio" /\ c \notin calls'
           /\ NothingToSend(NodeOf(c.snapNodes, c.nodeId)))
          => /\ nodes' = nodes /\ requests' = requests
             /\ calls' = calls \ {c}
             /\ transitions' = transitions /\ outcomes' = outcomes]_vars

\* The generate button has been clicked on a node whose only text is in a
\* disabled layer, the click has run to its end, and nothing has happened.
TriggeredWithDisabledText ==
  /\ callCounter > 0 /\ calls = {}
  /\ requests = << >> /\ transitions = {} /\ outcomes = {}
  /\ \E n \in GeneratorNodes :
       /\ NothingToSend(n)
       /\ \E i \in 1..Len(n.data.layers) :
            ~n.data.layers[i].isEnabled /\ n.data.layers[i].prompt = "A"

AllSucceededStoresAllImages ==
  [][\A o \in outcomes' \ outcomes :
       o.status = "success" =>
         LET data == NodeOf(nodes', o.node).data
             N == IF NodeOf(nodes, o.node).data.numberOfImages = 0 THEN 1
                  ELSE NodeOf(nodes, o.node).data.numberOfImages
         IN /\ o.fetches = N
            /\ data.status = "success"
            /\ data.generatedImages =
                 [i \in 1..N |-> [data |-> "g", marks |-> << >>, call |-> o.call, idx |-> i]]
            /\ data.generatedImage = data.generatedImages[1]
            /\ data.selectedImageIndex = 0]_vars

\* A second invocation asking for two images has succeeded on a node that
\* held the two images of the first: the node shows those of the second.
SecondResultReplacedFirst ==
  \E o1, o2 \in outcomes :
    /\ o1.call = 1 /\ o2.call = 2 /\ calls = {}
    /\ o1.status = "success" /\ o2.status = "success"
    /\ Len(o1.images) = 2 /\ Len(o2.images) = 2
    /\ \E n \in GeneratorNodes :
         /\ n.data.generatedImages = o2.images
         /\ n.data.generatedImage = o2.images[1]
         /\ n.data.selectedImageIndex = 0

\* The invocations that take a step between this state and the next: those
\* started, ended, or moved to another stage.
Stepping == (calls \ calls') \cup (calls' \ calls)

\* Node n of this state is a node of the next, with every field as it was.
Untouched(n) == HasNode(nodes', n.id) /\ NodeOf(nodes', n.id) = n

\* C15: a step of a generation on one node changes no field of any other
\* node; generations on different nodes each end reflected in their own
\* node, in whatever order the responses arrive; the response of a
\* generation whose node has been deleted meanwhile changes no node, no
\* connection and no selection.
GenerationsAreIsolated ==
  /\ [][(Stepping # {} \/ outcomes' # outcomes) =>
          /\ Len(nodes') = Len(nodes)
          /\ \A n \in Range(nodes) :
               (\A c \in Stepping : c.nodeId # n.id) => Untouched(n)
          /\ \A c \in Stepping :
               ~HasNode(nodes, c.nodeId) =>
                 /\ nodes' = nodes /\ connections' = connections
                 /\ selectedNodeId' = selectedNodeId
                 /\ selectedConnectionId' = selectedConnectionId]_vars
  /\ [](\A o \in outcomes :
          (/\ HasNode(nodes, o.node)
           /\ \A p \in outcomes : p.node = o.node => p = o
           /\ \A c \in calls : c.nodeId # o.node)
          => /\ NodeOf(nodes, o.node).data.status = o.status
             /\ NodeOf(nodes, o.node).data.generatedImages = o.images)

\* Generations were in flight on both nodes; the node of the first was
\* deleted before its response came, the second ended in its own node.
ResponseForDeletedNode ==
  \E o1, o2 \in outcomes :
    /\ o1.call = 1 /\ o2.call = 2 /\ o1.node # o2.node
    /\ ~o1.applied /\ o1.status = "success"
    /\ o2.applied /\ o2.status = "success"
    /\ HasNode(nodes, o2.node)
    /\ NodeOf(nodes, o2.node).data.generatedImages = o2.images

\* C16: after a pointer-up in connection-drag mode, every generator node
\* whose drop region (its box, extended on the input side) holds the release
\* world point and which is not the source of the drag is connected from the
\* source: by the connection created now, or by the one that existed.
DropOnGeneratorConnects ==
  lastOp.op = "drop" =>
    \A G \in GeneratorNodes :
      (G.id # lastOp.src /\ InDropRegion(G, lastOp.at))
      => \E i \in 1..Len(connections) :
           connections[i].sourceId = lastOp.src /\ connections[i].targetId = G.id

DragModes == {"IDLE", "CANVAS", "NODE", "CONNECTION"}

\* C17: at every moment exactly one of the drag modes IDLE, CANVAS, NODE and
\* CONNECTION is active, and a pointer-down changes the mode only when the
\* mode is IDLE: after a pointer-down that came in another mode, the mode is
\* the one it was.
ModeEnteredOnlyFromIdle ==
  /\ dragState.mode \in DragModes
  /\ dragState.isDragging <=> dragState.mode # "IDLE"
  /\ (lastOp.op = "pointerDown" /\ lastOp.res # "IDLE") => dragState.mode = lastOp.res

\* C18: a pointer-up, in whatever mode it comes, leaves the drag state IDLE
\* and not dragging, with no dragged node id, no node start position, no
\* connection source id and no connection current position.
PointerUpResetsDrag ==
  lastOp.op \in {"pointerUp", "drop"} =>
    /\ dragState.mode = "IDLE"
    /\ ~dragState.isDragging
    /\ dragState.draggedNodeId = NoId
    /\ dragState.nodeStartPos = None
    /\ dragState.connectionStartNodeId = NoId
    /\ dragState.connectionCurrentPos = None

\* The pointer has been released after a node drag that moved the node.
ReleasedAfterNodeDrag ==
  /\ lastOp.op = "pointerUp" /\ lastOp.res = "NODE"
  /\ \E i \in 1..Len(nodes) : nodes[i].position # DragNodes[i].position

\* C19: the frame that follows a pointer move to screen point c during a node
\* drag puts the dragged node at its position at pointer-down plus
\* (c - pointer-down point) / scale, whatever the pan offset, and leaves every
\* other node, and every other field of the dragged node, as it was.
NodeDragFollowsPointer ==
  /\ [][(dragState'.mode = "NODE" /\ lastOp'.op = "pointerDown") =>
          /\ dragState'.startPos \in DragPts
          /\ dragState'.nodeStartPos =
               Some(NodeOf(nodes, dragState'.draggedNodeId).position)]_vars
  /\ [][(rAFRef # None /\ rAFRef' = None /\ dragState'.mode = "NODE") =>
          LET c == Pos(rAFRef[1].clientX, rAFRef[1].clientY)
              start == dragState.nodeStartPos[1]
              down == dragState.startPos
              moved == Pos(start.x + ((c.x - down.x) * ScaleOne) \div rAFRef[1].scale,
                           start.y + ((c.y - down.y) * ScaleOne) \div rAFRef[1].scale)
          IN /\ Len(nodes') = Len(nodes)
             /\ \A i \in 1..Len(nodes) :
                  IF nodes[i].id = dragState.draggedNodeId
                  THEN nodes'[i] = [nodes[i] EXCEPT !.position = moved]
                  ELSE nodes'[i] = nodes[i]]_vars

\* A node is being dragged on a canvas zoomed out and panned away from the
\* origin, and the last frame has moved it by the pointer's way over the scale.
NodeDraggedWhileZoomedAndPanned ==
  /\ dragState.mode = "NODE" /\ rAFRef = None
  /\ scale # ScaleOne /\ offset # Pos(0, 0)
  /\ NodeOf(nodes, dragState.draggedNodeId).position.x =
       dragState.nodeStartPos[1].x + ((DragB - ClientA) * ScaleOne) \div scale

\* C20: during a pan, after any sequence of pointer moves, the offset is the
\* offset at pointer-down plus (current pointer point - pointer-down point):
\* each move has added the way since the move before, none of it twice.
PanFollowsPointer ==
  (dragState.mode = "CANVAS" /\ pan # None) =>
    offset = Pos(pan[1].from.x + (pan[1].cur.x - pan[1].down.x),
                 pan[1].from.y + (pan[1].cur.y - pan[1].down.y))

\* A pan of several moves on a zoomed canvas, the pointer now away from where
\* it went down.
PannedBySeveralMoves ==
  /\ dragState.mode = "CANVAS" /\ pan # None
  /\ pan[1].moves >= 2 /\ pan[1].cur # pan[1].down
  /\ pan[1].from # Pos(0, 0)

\* C21: during node and connection dragging the pointer moves are coalesced
\* onto animation frames: at most one callback is pending at any time, so the
\* next frame applies at most one update of a node position or of the
\* rubber-band end, and after a move that callback is the one of this move,
\* computed from its pointer position.
MovesCoalescedPerFrame ==
  /\ Len(rAFRef) <= 1
  /\ (lastOp.op = "move" /\ lastOp.res \in {"NODE", "CONNECTION"}) =>
       /\ Len(rAFRef) = 1
       /\ Pos(rAFRef[1].clientX, rAFRef[1].clientY) = lastOp.at
       /\ rAFRef[1].dragState.mode = lastOp.res

\* Two moves of a node drag have come without a frame between them; the
\* callback pending holds the point of the second, which differs from the
\* point the pointer went down at.
SecondMoveBeforeFrame ==
  /\ lastOp.op = "move" /\ lastOp.arg = 2 /\ lastOp.res = "NODE"
  /\ dragState.mode = "NODE"
  /\ lastOp.at # dragState.startPos

\* C22: after any sequence of zoom-in, zoom-out, reset-zoom and wheel events
\* the scale lies within 0.1 and 3.0 (in tenths: within 1 and 30).
ScaleWithinLimits == scale >= 1 /\ scale <= 30

\* A wheel sweep that would have taken the scale below the lower limit has
\* left it at the limit.
WheelStoppedAtLowerLimit ==
  lastOp.op = "wheel" /\ lastOp.arg < 1 /\ scale = 1

\* C23: for every pan offset, scale within the limits and origin of the
\* canvas element, screenToWorld of the screen image of a world point p under
\* the rendering transform (p * scale + offset + origin) is p.
ScreenToWorldInvertsTransform ==
  lastOp.op = "locate" => lastOp.at = lastOp.from

\* A world point away from the origin has been located on a canvas that is
\* zoomed in, panned, and does not begin at the corner of the window.
LocatedWhileZoomedAndPanned ==
  /\ lastOp.op = "locate" /\ lastOp.from = Pos(250, 150)
  /\ scale > ScaleOne /\ offset # Pos(0, 0)

\* C24: generate() returns a result with success false and an error message
\* whenever the image API call failed, and a result with success true only
\* when the API call succeeded.
GenerateReportsApiFailure ==
  (IF generator = None THEN FALSE ELSE generator[1].stage = "returned") =>
    /\ ~generator[1].api.success =>
         ~generator[1].result.success /\ generator[1].result.error # ""
    /\ generator[1].result.success => generator[1].api.success

\* C25: in every reachable state each connection's sourceId and targetId are
\* ids of nodes of the canvas, its target is a GENERATE_IMAGE node and its
\* source is not its target; so too when a node is deleted, by its button or
\* by the Delete key, while a connection drag that began at it is under way.
ConnectionsJoinExistingNodes ==
  \A c \in Range(connections) :
    /\ HasNode(nodes, c.sourceId)
    /\ HasNode(nodes, c.targetId)
    /\ NodeOf(nodes, c.targetId).type = "GENERATE_IMAGE"
    /\ c.sourceId # c.targetId

\* C26: the completion of a generation, a success or a failure, changes only
\* the result fields (status, generatedImages, generatedImage,
\* selectedImageIndex) of the node it was triggered on: layers, model, aspect
\* ratio, resolution and image count, also where the user has changed them
\* while the node was loading, and every other node stay as they were.
CompletionChangesOnlyResultFields ==
  [][outcomes' # outcomes =>
       /\ Len(nodes') = Len(nodes)
       /\ \A i \in 1..Len(nodes) :
            /\ nodes'[i] = [nodes[i] EXCEPT
                              !.data.status = nodes'[i].data.status,
                              !.data.generatedImages = nodes'[i].data.generatedImages,
                              !.data.generatedImage = nodes'[i].data.generatedImage,
                              !.data.selectedImageIndex = nodes'[i].data.selectedImageIndex]
            /\ (\A o \in outcomes' \ outcomes : o.node # nodes[i].id) => nodes'[i] = nodes[i]
  ]_vars

\* A generation has succeeded, and another has failed, on a node whose
\* settings had been changed after it was triggered.
CompletedAfterEditWhileLoading ==
  /\ \E o \in outcomes : o.status = "success" /\ o.applied /\ o.edited
  /\ \E o \in outcomes : o.status = "error" /\ o.applied /\ o.edited

\* C27: at most one of the selected node and the selected connection is set
\* at any time: a pointer-down on a node, or the focus of its prompt box,
\* selects that node and clears the selected connection; selecting a
\* connection clears the selected node; a pointer-down on the empty canvas
\* clears both.
SelectionIsExclusive ==
  /\ selectedNodeId = NoId \/ selectedConnectionId = NoId
  /\ (lastOp.op = "pointerDown" /\ dragState.mode = "NODE") =>
       selectedNodeId = dragState.draggedNodeId /\ selectedConnectionId = NoId
  /\ lastOp.op = "focusPrompt" =>
       selectedNodeId = lastOp.arg /\ selectedConnectionId = NoId
  /\ lastOp.op = "selectConnection" =>
       selectedConnectionId = lastOp.arg /\ selectedNodeId = NoId
  /\ (lastOp.op = "pointerDown" /\ dragState.mode = "CANVAS") =>
       selectedNodeId = NoId /\ selectedConnectionId = NoId

\* The prompt box of a node has taken the focus while a connection was
\* selected.
FocusedWhileConnectionSelected ==
  lastOp.op = "focusPrompt" /\ lastOp.src # NoId /\ selectedNodeId = lastOp.arg

\* C28: whenever a selected node id or a selected connection id is set, it is
\* the id of a node or connection of the canvas, after any sequence of
\* selections and deletions (the delete button of a node or of a connection,
\* the Delete key, the connections removed with a deleted node).
SelectionRefersToExisting ==
  /\ selectedNodeId # NoId => HasNode(nodes, selectedNodeId)
  /\ selectedConnectionId # NoId =>
       \E c \in Range(connections) : c.id = selectedConnectionId

\* C29: whenever a generator node holds a non-empty generatedImages list, its
\* selectedImageIndex is an index of the list and its generatedImage is the
\* image at that index, after any sequence of triggers, completions and
\* thumbnail selections; selecting an index outside the list changes nothing.
SelectedImageIsConsistent ==
  /\ [](\A n \in Range(nodes) :
          (n.type = "GENERATE_IMAGE" /\ Len(n.data.generatedImages) > 0) =>
            /\ n.data.selectedImageIndex \in 0..(Len(n.data.generatedImages) - 1)
            /\ n.data.generatedImage = n.data.generatedImages[n.data.selectedImageIndex + 1])
  /\ [][(/\ lastOp'.op = "selectImage"
          /\ HasNode(nodes, lastOp'.src)
          /\ lastOp'.arg \notin 0..(Len(NodeOf(nodes, lastOp'.src).data.generatedImages) - 1))
          => nodes' = nodes]_vars

\* The second thumbnail of two generated images has been selected.
SecondThumbnailSelected ==
  /\ lastOp.op = "selectImage" /\ lastOp.arg = 1
  /\ \E n \in Range(nodes) :
       /\ n.id = lastOp.src
       /\ Len(n.data.generatedImages) = 2
       /\ n.data.selectedImageIndex = 1

\* C30: after a pointer-up no animation-frame callback scheduled by an
\* earlier pointer move is pending: from that pointer-up to the next
\* pointer-down no node position and no field of the drag state changes.
NothingMovesAfterPointerUp ==
  /\ [](lastOp.op \in { "pointerUp", "drop" } => rAFRef = << >>)
  /\ [][(~dragState.isDragging /\ lastOp'.op # "pointerDown") =>
          /\ dragState' = dragState
          /\ Len(nodes') = Len(nodes)
          /\ \A i \in 1..Len(nodes) : nodes'[i].position = nodes[i].position]_vars

\* The pointer has been released over the canvas right after a move of a
\* node drag, while the frame of that move was pending (lastOp.arg counts the
\* callbacks pending at the release): no node has moved.
ReleasedBeforeFrame ==
  /\ lastOp.op = "pointerUp" /\ lastOp.res = "NODE" /\ lastOp.arg > 0
  /\ rAFRef = << >>
  /\ \A i \in 1..Len(nodes) : nodes[i].position = DragNodes[i].position

============================================================================
